---- MODULE Spec2Model ----
(***************************************************************************)
(* The tool-calling orchestration of backend/ai_generator.py: the round    *)
(* state (ToolRoundState), the sequential round loop                       *)
(* (generate_response_with_sequential_tools, _execute_tool_round,          *)
(* _get_final_response) and the single-call path (generate_response,       *)
(* _handle_tool_execution).  One behaviour of Spec is one query.  The      *)
(* model endpoint and the tool executor are the environment: every         *)
(* response shape, every transport failure and every tool failure is a     *)
(* choice.  SpecConcurrent interleaves two sequential calls on one         *)
(* AIGenerator; SpecReplay runs one query through both entry points.       *)
(***************************************************************************)
EXTENDS Naturals, Sequences, FiniteSets, TLC

\* ------------------------------------------------------------------ bounds

\* Largest max_rounds argument a query is started with.
MaxRounds == 2

\* ------------------------------------------------------- values of the run

\* ToolRoundState.current_round's default.
FirstRound == 1

\* ToolRoundState.max_rounds' default.
DefaultMaxRounds == 2

Query == "What is 2+2?"

\* conversation_history: None / "" (both falsy) or a formatted summary.
Histories == {"", "User asked about ML basics."}

\* tools: None / [] (both falsy) or a list of descriptors.
ToolLists == {<<>>, <<"search_course_content">>}

\* the text a model response's text block may carry
Texts == {"", "Direct answer"}

ToolNames == {"search_course_content"}

\* what tool_manager.execute_tool returns
ToolOutputs == {"Search results"}

\* str(e) of an exception raised by the endpoint or by a tool
ErrorMessages == {"API Error"}

None == [none |-> TRUE]

SYSTEM_PROMPT == "You are an AI assistant specialized in course materials"

\* ---------------------------------------------------- the model's responses

TextBlock(t) == [type |-> "text", text |-> t]

\* A tool-use request; the endpoint gives each request its own identifier,
\* here the number of the model call and the block's position in it.
ToolUseBlock(nm, n, i) ==
    [type |-> "tool_use", name |-> nm, id |-> <<n, i>>, input |-> [query |-> "machine learning"]]

BlockKinds == {[type |-> "text", text |-> t] : t \in Texts}
                \cup {[type |-> "tool_use", name |-> nm] : nm \in ToolNames}

ToolUseKinds == {k \in BlockKinds : k.type = "tool_use"}

\* a content block that is neither text nor a tool request: it has no .text
ImageBlock == [type |-> "image"]

\* what a malformed response carries in place of a block with text: a
\* non-text block, or None
MalformedBlocks == {ImageBlock, None}

\* The shapes of a response's content: no block, one block (well-formed or
\* malformed), any two well-formed blocks, and three tool-use requests in one
\* response.
ContentShapes ==
    {<<>>}
      \cup {<<a>> : a \in BlockKinds \cup MalformedBlocks}
      \cup {<<a, b>> : a \in BlockKinds, b \in BlockKinds}
      \cup {<<a, b, c>> : a \in ToolUseKinds, b \in ToolUseKinds, c \in ToolUseKinds}

StopReasons == {"tool_use", "end_turn"}

\* The n-th response of the endpoint, with stop reason sr and blocks of shape sh.
Response(n, sr, sh) ==
    [stop_reason |-> sr,
     content |-> [i \in 1..Len(sh) |->
                    IF sh[i] \in MalformedBlocks
                    THEN sh[i]
                    ELSE IF sh[i].type = "text"
                         THEN TextBlock(sh[i].text)
                         ELSE ToolUseBlock(sh[i].name, n, i)]]

\* ------------------------------------------------------------------- state

VARIABLES
    path,                   \* "sequential" or "single": the entry point called
    max_rounds,             \* argument max_rounds
    tools,                  \* argument tools
    tool_manager,           \* argument tool_manager given (TRUE) or None (FALSE)
    conversation_history,   \* argument conversation_history
    pc,                     \* position of the call
    current_round,          \* ToolRoundState.current_round
    has_errors,             \* ToolRoundState.has_errors
    messages,               \* ToolRoundState.messages (single path: messages)
    tool_execution_history, \* ToolRoundState.tool_execution_history
    response,               \* the response whose tool requests are being run
    last_response,          \* last_response of the round loop
    block_idx,              \* position of the for loop over response.content
    tool_results,           \* tool_results of the running batch
    api_calls,              \* log: keyword arguments of every messages.create
    api_returns,            \* log: what every messages.create returned or raised
    tool_calls,             \* log: every tool_manager.execute_tool invocation
    outcome,                \* "running", "returned" or "raised"
    result,                 \* the returned string, or the raised message
    parked                  \* the frame of the other call on this AIGenerator
                            \* while it is not running; None if there is none

vars == <<path, max_rounds, tools, tool_manager, conversation_history, pc,
          current_round, has_errors, messages, tool_execution_history,
          response, last_response, block_idx, tool_results, api_calls,
          api_returns, tool_calls, outcome, result, parked>>

args == <<path, max_rounds, tools, tool_manager, conversation_history>>

\* ------------------------------------------------------------ ToolRoundState

\* can_continue with the round test off by one
can_continue_one_more == current_round <= max_rounds + 1 /\ ~has_errors

\* can_continue that forgets the error flag
can_continue_ignoring_errors == current_round <= max_rounds

can_continue == current_round <= max_rounds /\ ~has_errors

\* advance_round skipping a round
advance_round_by_two(r) == r + 2

advance_round(r) == r + 1

\* add_tool_execution stamping the record with the round to come
add_tool_execution_next_round(hist, rnd, block, tool_result) ==
    Append(hist, [round |-> rnd + 1, tool_name |-> block.name,
                  input |-> block.input, result |-> tool_result])

add_tool_execution(hist, rnd, block, tool_result) ==
    Append(hist, [round |-> rnd, tool_name |-> block.name,
                  input |-> block.input, result |-> tool_result])

\* ------------------------------------------------------------------ helpers

\* system content: the prompt, followed by the history when one is given
system_content ==
    IF conversation_history # ""
    THEN SYSTEM_PROMPT \o "\n\nPrevious conversation:\n" \o conversation_history
    ELSE SYSTEM_PROMPT

base_params(msgs) == [messages |-> msgs, system |-> system_content]

with_tools(params) == params @@ [tools |-> tools, tool_choice |-> "auto"]

\* api_params of _execute_tool_round that send the tool keys whatever was
\* supplied
round_params_always_tools == with_tools(base_params(messages))

\* api_params of _execute_tool_round
round_params ==
    IF tools # <<>> /\ current_round <= max_rounds
    THEN with_tools(base_params(messages))
    ELSE base_params(messages)

\* final_params that fall back to the bare prompt
final_params_bare_prompt == [messages |-> messages, system |-> SYSTEM_PROMPT]

\* final_params that keep the tool descriptors
final_params_with_tools == with_tools(base_params(messages))

\* final_params of _get_final_response
final_params == base_params(messages)

\* has_tool_calls deciding by the stop reason instead of the blocks
has_tool_calls_by_stop_reason(resp) ==
    resp # None /\ resp.stop_reason = "tool_use"

\* str(e) of the AttributeError of reading .type of a None block
NoTypeAttribute == "'NoneType' object has no attribute 'type'"

Min(S) == CHOOSE m \in S : \A k \in S : m <= k

\* positions of the blocks of content with type "tool_use"
ToolUseIndices(content) ==
    {i \in 1..Len(content) : content[i] # None /\ content[i].type = "tool_use"}

NoneIndices(content) == {i \in 1..Len(content) : content[i] = None}

\* any(...) of _has_tool_calls reads .type of a None block before it meets a
\* tool_use block: the evaluation raises AttributeError
has_tool_calls_raises(resp) ==
    /\ resp # None
    /\ NoneIndices(resp.content) # {}
    /\ \A i \in ToolUseIndices(resp.content) : Min(NoneIndices(resp.content)) < i

has_tool_calls(resp) ==
    IF resp = None \/ resp.content = <<>>
    THEN FALSE
    ELSE ToolUseIndices(resp.content) # {}

NoValidContent == "Error: No valid response content received from AI."

TextIndices(resp) == {i \in 1..Len(resp.content) : "text" \in DOMAIN resp.content[i]}

\* _extract_text_response that falls through to the text of the stop reason
\* when no block has text
extract_text_response_stop_reason(resp) ==
    IF resp # None /\ resp.content # <<>> /\ TextIndices(resp) # {}
    THEN resp.content[Min(TextIndices(resp))].text
    ELSE resp.stop_reason

extract_text_response(resp) ==
    IF resp # None /\ resp.content # <<>> /\ TextIndices(resp) # {}
    THEN resp.content[Min(TextIndices(resp))].text
    ELSE NoValidContent

\* the for loop over the blocks stepping back onto the block it just handled
NextToolUse_again(content, i) ==
    LET S == {j \in (IF i > 1 THEN i - 1 ELSE i)..Len(content) :
                 content[j] = None \/ content[j].type = "tool_use"}
    IN IF S = {} THEN Len(content) + 1 ELSE Min(S)

\* position of the first block of content at or after i on which the for
\* loop over the blocks acts: a tool_use block, or a None block, whose .type
\* cannot be read; Len+1 if none
NextToolUse(content, i) ==
    LET S == {j \in i..Len(content) :
                 content[j] = None \/ content[j].type = "tool_use"}
    IN IF S = {} THEN Len(content) + 1 ELSE Min(S)

\* the handler of generate_response_with_sequential_tools wording its string
\* differently
sequential_error_reworded(msg) == "Sequential tool execution failed: " \o msg

\* the handler of generate_response_with_sequential_tools
sequential_error(msg) == "Error during sequential tool execution: " \o msg

\* the handler of _get_final_response
final_error(msg) == "Error generating final response: " \o msg

assistant_turn(resp) == [role |-> "assistant", content |-> resp.content]

\* a tool_result entry tagged with the identifier of the first request of the
\* response instead of its own
tool_result_entry_first_id(block, tool_result) ==
    [type |-> "tool_result", tool_use_id |-> <<block.id[1], 1>>,
     content |-> tool_result]

tool_result_entry(block, tool_result) ==
    [type |-> "tool_result", tool_use_id |-> block.id, content |-> tool_result]

\* the tool-result turn appended whether or not a result was collected
append_results_always(msgs, results) ==
    Append(msgs, [role |-> "user", content |-> results])

\* the tool-result turn put in front of the transcript
append_results_in_front(msgs, results) ==
    IF results # <<>>
    THEN <<[role |-> "user", content |-> results]>> \o msgs
    ELSE msgs

\* if tool_results: messages.append({"role": "user", "content": tool_results})
append_results(msgs, results) ==
    IF results # <<>>
    THEN Append(msgs, [role |-> "user", content |-> results])
    ELSE msgs

\* ------------------------------------------------------------------ Init

Init ==
    /\ path \in {"sequential", "single"}
    /\ max_rounds \in IF path = "sequential" THEN (0 - 1)..MaxRounds ELSE {DefaultMaxRounds}
    /\ tools \in ToolLists
    /\ tool_manager \in BOOLEAN
    /\ conversation_history \in Histories
    /\ pc = IF path = "sequential" THEN "loop" ELSE "first"
    /\ current_round = FirstRound
    /\ has_errors = FALSE
    /\ messages = <<[role |-> "user", content |-> Query]>>
    /\ tool_execution_history = <<>>
    /\ response = None
    /\ last_response = None
    /\ block_idx = 0
    /\ tool_results = <<>>
    /\ api_calls = <<>>
    /\ api_returns = <<>>
    /\ tool_calls = <<>>
    /\ outcome = "running"
    /\ result = ""
    /\ parked = None

\* ------------------------------------------------- the logs of the mocks

\* one messages.create(**params) issued at call site `site`
LogCall(params, site) ==
    Append(api_calls, [params |-> params, site |-> site,
                       round |-> current_round, has_errors |-> has_errors])

\* one tool_manager.execute_tool(block.name, **block.input), which returned
\* out (ok) or raised
LogTool(block, ok, out) ==
    Append(tool_calls, [name |-> block.name, input |-> block.input,
                        id |-> block.id, round |-> current_round,
                        has_errors |-> has_errors,
                        call |-> Len(api_calls), ok |-> ok, out |-> out])

Return(text) ==
    /\ outcome' = "returned"
    /\ result' = text
    /\ pc' = "done"

Raise(msg) ==
    /\ outcome' = "raised"
    /\ result' = msg
    /\ pc' = "done"

\* ------------------------------------------------------ the sequential path

\* the end of a round that treats an exhausted budget as an error
EndRound_exhaustion_is_error(msgs, errs, resp, results) ==
    /\ messages' = append_results(msgs, results)
    /\ last_response' = resp
    /\ IF has_tool_calls_raises(resp)
       THEN /\ Return(sequential_error(NoTypeAttribute))
            /\ has_errors' = errs
            /\ UNCHANGED current_round
       ELSE IF resp # None /\ has_tool_calls(resp)
       THEN /\ current_round' = advance_round(current_round)
            /\ has_errors' = (errs \/ advance_round(current_round) > max_rounds)
            /\ pc' = "loop"
            /\ UNCHANGED <<outcome, result>>
       ELSE IF resp # None /\ ~has_tool_calls(resp)
       THEN /\ Return(extract_text_response(resp))
            /\ has_errors' = errs
            /\ UNCHANGED current_round
       ELSE /\ has_errors' = TRUE
            /\ pc' = "loop"
            /\ UNCHANGED <<current_round, outcome, result>>

\* The end of _execute_tool_round (the tool-result turn, `return response`)
\* and the rest of the loop body of generate_response_with_sequential_tools:
\* the round of response resp ends with transcript msgs, error flag errs and
\* the batch results.
EndRound(msgs, errs, resp, results) ==
    /\ messages' = append_results(msgs, results)
    /\ last_response' = resp
    /\ IF has_tool_calls_raises(resp)
       THEN /\ Return(sequential_error(NoTypeAttribute))
            /\ has_errors' = errs
            /\ UNCHANGED current_round
       ELSE IF resp # None /\ has_tool_calls(resp)
       THEN /\ current_round' = advance_round(current_round)
            /\ has_errors' = errs
            /\ pc' = "loop"
            /\ UNCHANGED <<outcome, result>>
       ELSE IF resp # None /\ ~has_tool_calls(resp)
       THEN /\ Return(extract_text_response(resp))
            /\ has_errors' = errs
            /\ UNCHANGED current_round
       ELSE /\ has_errors' = TRUE
            /\ pc' = "loop"
            /\ UNCHANGED <<current_round, outcome, result>>

\* while round_state.can_continue(): _execute_tool_round issues the model
\* call of the round and the endpoint answers with a response.
RoundResponds ==
    /\ pc = "loop"
    /\ can_continue
    /\ \E sr \in StopReasons, sh \in ContentShapes :
        LET resp == Response(Len(api_calls) + 1, sr, sh)
            runs == resp.stop_reason = "tool_use" /\ tool_manager
            msgs == IF runs THEN Append(messages, assistant_turn(resp)) ELSE messages
            first == NextToolUse(resp.content, 1)
        IN /\ api_calls' = LogCall(round_params, "round")
           /\ api_returns' = Append(api_returns, resp)
           /\ IF runs /\ first <= Len(resp.content) /\ resp.content[first] = None
              THEN /\ messages' = msgs
                   /\ Return(sequential_error(NoTypeAttribute))
                   /\ UNCHANGED <<current_round, has_errors, last_response,
                                  response, block_idx, tool_results>>
              ELSE IF runs /\ first <= Len(resp.content)
              THEN /\ messages' = msgs
                   /\ response' = resp
                   /\ block_idx' = first
                   /\ tool_results' = <<>>
                   /\ pc' = "tools"
                   /\ UNCHANGED <<current_round, has_errors, last_response,
                                  outcome, result>>
              ELSE /\ EndRound(msgs, has_errors, resp, <<>>)
                   /\ UNCHANGED <<response, block_idx, tool_results>>
    /\ UNCHANGED <<args, parked, tool_execution_history, tool_calls>>

\* the model call of the round fails and no handler catches it
RoundRaises_propagating ==
    /\ pc = "loop"
    /\ can_continue
    /\ \E msg \in ErrorMessages :
        /\ api_calls' = LogCall(round_params, "round")
        /\ api_returns' = Append(api_returns, [raised |-> msg])
        /\ Raise(msg)
    /\ UNCHANGED <<args, parked, current_round, has_errors, messages,
                   tool_execution_history, response, last_response, block_idx,
                   tool_results, tool_calls>>

\* the model call of the round fails: the exception reaches the handler of
\* generate_response_with_sequential_tools
RoundRaises ==
    /\ pc = "loop"
    /\ can_continue
    /\ \E msg \in ErrorMessages :
        /\ api_calls' = LogCall(round_params, "round")
        /\ api_returns' = Append(api_returns, [raised |-> msg])
        /\ Return(sequential_error(msg))
    /\ UNCHANGED <<args, parked, current_round, has_errors, messages,
                   tool_execution_history, response, last_response, block_idx,
                   tool_results, tool_calls>>

\* one tool_use block of the for loop: execute_tool returns
ToolSucceeds ==
    /\ pc = "tools"
    /\ \E tool_result \in ToolOutputs :
        LET block == response.content[block_idx]
            results == Append(tool_results, tool_result_entry(block, tool_result))
            next == NextToolUse(response.content, block_idx + 1)
        IN /\ tool_calls' = LogTool(block, TRUE, tool_result)
           /\ tool_execution_history' =
                add_tool_execution(tool_execution_history, current_round,
                                   block, tool_result)
           /\ IF next <= Len(response.content) /\ response.content[next] = None
              THEN /\ tool_results' = results
                   /\ block_idx' = next
                   /\ Return(sequential_error(NoTypeAttribute))
                   /\ UNCHANGED <<current_round, has_errors, messages,
                                  last_response>>
              ELSE IF next <= Len(response.content)
              THEN /\ tool_results' = results
                   /\ block_idx' = next
                   /\ UNCHANGED <<pc, current_round, has_errors, messages,
                                  last_response, outcome, result>>
              ELSE /\ EndRound(messages, has_errors, response, results)
                   /\ tool_results' = results
                   /\ UNCHANGED block_idx
    /\ UNCHANGED <<args, parked, response, api_calls, api_returns>>

\* the failure reported to the model as a result entry of the batch
ToolRaises_reporting ==
    /\ pc = "tools"
    /\ LET block == response.content[block_idx]
       IN /\ tool_calls' = LogTool(block, FALSE, None)
          /\ EndRound(messages, TRUE, response,
                      Append(tool_results,
                             tool_result_entry(block, "Tool execution failed")))
    /\ UNCHANGED <<args, parked, tool_execution_history, response, block_idx,
                   tool_results, api_calls, api_returns>>

\* one tool_use block of the for loop: execute_tool raises
ToolRaises ==
    /\ pc = "tools"
    /\ LET block == response.content[block_idx]
       IN /\ tool_calls' = LogTool(block, FALSE, None)
          /\ EndRound(messages, TRUE, response, tool_results)
    /\ UNCHANGED <<args, parked, tool_execution_history, response, block_idx,
                   tool_results, api_calls, api_returns>>

\* the final call reserved to a loop that ended without an error
FinalCallNeeded_unless_errors ==
    /\ pc = "loop"
    /\ ~can_continue
    /\ ~has_errors
    /\ last_response # None
    /\ has_tool_calls(last_response)

\* the loop is over and the last response had tool calls
FinalCallNeeded ==
    /\ pc = "loop"
    /\ ~can_continue
    /\ last_response # None
    /\ has_tool_calls(last_response)

\* a final response whose tool-use requests are executed like those of a round
FinalResponds_looping ==
    /\ FinalCallNeeded
    /\ \E sr \in StopReasons, sh \in ContentShapes :
        LET resp == Response(Len(api_calls) + 1, sr, sh)
            first == NextToolUse(resp.content, 1)
        IN /\ api_calls' = LogCall(final_params, "final")
           /\ api_returns' = Append(api_returns, resp)
           /\ IF first <= Len(resp.content) /\ resp.content[first] # None
              THEN /\ response' = resp
                   /\ block_idx' = first
                   /\ tool_results' = <<>>
                   /\ pc' = "tools"
                   /\ UNCHANGED <<outcome, result>>
              ELSE /\ Return(extract_text_response(resp))
                   /\ UNCHANGED <<response, block_idx, tool_results>>
    /\ UNCHANGED <<args, parked, current_round, has_errors, messages,
                   tool_execution_history, last_response, tool_calls>>

\* _get_final_response: the endpoint answers
FinalResponds ==
    /\ FinalCallNeeded
    /\ \E sr \in StopReasons, sh \in ContentShapes :
        LET resp == Response(Len(api_calls) + 1, sr, sh)
        IN /\ api_calls' = LogCall(final_params, "final")
           /\ api_returns' = Append(api_returns, resp)
           /\ Return(extract_text_response(resp))
    /\ UNCHANGED <<args, parked, current_round, has_errors, messages,
                   tool_execution_history, response, last_response, block_idx,
                   tool_results, tool_calls>>

\* _get_final_response: the call fails
FinalRaises ==
    /\ FinalCallNeeded
    /\ \E msg \in ErrorMessages :
        /\ api_calls' = LogCall(final_params, "final")
        /\ api_returns' = Append(api_returns, [raised |-> msg])
        /\ Return(final_error(msg))
    /\ UNCHANGED <<args, parked, current_round, has_errors, messages,
                   tool_execution_history, response, last_response, block_idx,
                   tool_results, tool_calls>>

\* the return after the loop that waits for a response to have been obtained
ReturnLast_awaiting_response ==
    /\ pc = "loop"
    /\ ~can_continue
    /\ ~FinalCallNeeded
    /\ last_response # None
    /\ Return(extract_text_response(last_response))
    /\ UNCHANGED <<args, parked, current_round, has_errors, messages,
                   tool_execution_history, response, last_response, block_idx,
                   tool_results, api_calls, api_returns, tool_calls>>

\* the loop is over and no final call is due
ReturnLast ==
    /\ pc = "loop"
    /\ ~can_continue
    /\ ~FinalCallNeeded
    /\ Return(IF last_response # None
              THEN extract_text_response(last_response)
              ELSE "Error: No response received")
    /\ UNCHANGED <<args, parked, current_round, has_errors, messages,
                   tool_execution_history, response, last_response, block_idx,
                   tool_results, api_calls, api_returns, tool_calls>>

\* ------------------------------------------------------ the single-call path

\* api_params of generate_response
first_params ==
    IF tools # <<>>
    THEN with_tools(base_params(messages))
    ELSE base_params(messages)

NoValidContentAfterTools ==
    "Error: No valid response content received from AI after tool execution."

\* the "safety check" giving back an empty string in place of the placeholder
first_block_text_no_placeholder(resp, placeholder) ==
    IF resp.content # <<>> /\ "text" \in DOMAIN resp.content[1]
    THEN resp.content[1].text
    ELSE ""

\* the "safety check" of generate_response and _handle_tool_execution
first_block_text(resp, placeholder) ==
    IF resp.content # <<>> /\ "text" \in DOMAIN resp.content[1]
    THEN resp.content[1].text
    ELSE placeholder

\* api_params of the follow-up call that keep the tool descriptors
followup_params_with_tools == with_tools(base_params(messages))

\* final_params of _handle_tool_execution
followup_params == base_params(messages)

\* generate_response reading .text of the first block without the safety
\* check: a block without text raises AttributeError
FirstResponds_unchecked ==
    /\ pc = "first"
    /\ \E sr \in StopReasons, sh \in ContentShapes :
        LET resp == Response(Len(api_calls) + 1, sr, sh)
            first == NextToolUse(resp.content, 1)
        IN /\ api_calls' = LogCall(first_params, "first")
           /\ api_returns' = Append(api_returns, resp)
           /\ IF /\ resp.stop_reason = "tool_use" /\ tool_manager
                 /\ first <= Len(resp.content) /\ resp.content[first] = None
              THEN /\ Raise(NoTypeAttribute)
                   /\ UNCHANGED <<messages, response, block_idx, tool_results>>
              ELSE IF resp.stop_reason = "tool_use" /\ tool_manager
              THEN /\ messages' = Append(messages, assistant_turn(resp))
                   /\ response' = resp
                   /\ block_idx' = first
                   /\ tool_results' = <<>>
                   /\ pc' = IF first <= Len(resp.content) THEN "single_tools"
                                                         ELSE "followup"
                   /\ UNCHANGED <<outcome, result>>
              ELSE IF resp.content # <<>> /\ "text" \notin DOMAIN resp.content[1]
              THEN /\ Raise("object has no attribute 'text'")
                   /\ UNCHANGED <<messages, response, block_idx, tool_results>>
              ELSE /\ Return(first_block_text(resp, NoValidContent))
                   /\ UNCHANGED <<messages, response, block_idx, tool_results>>
    /\ UNCHANGED <<args, parked, current_round, has_errors, tool_execution_history,
                   last_response, tool_calls>>

\* generate_response handing a tool_use response to _handle_tool_execution
\* whether or not an executor was supplied
FirstResponds_without_executor ==
    /\ pc = "first"
    /\ \E sr \in StopReasons, sh \in ContentShapes :
        LET resp == Response(Len(api_calls) + 1, sr, sh)
            first == NextToolUse(resp.content, 1)
        IN /\ api_calls' = LogCall(first_params, "first")
           /\ api_returns' = Append(api_returns, resp)
           /\ IF /\ resp.stop_reason = "tool_use"
                 /\ first <= Len(resp.content) /\ resp.content[first] = None
              THEN /\ Raise(NoTypeAttribute)
                   /\ UNCHANGED <<messages, response, block_idx, tool_results>>
              ELSE IF resp.stop_reason = "tool_use"
              THEN /\ messages' = Append(messages, assistant_turn(resp))
                   /\ response' = resp
                   /\ block_idx' = first
                   /\ tool_results' = <<>>
                   /\ pc' = IF first <= Len(resp.content) THEN "single_tools"
                                                         ELSE "followup"
                   /\ UNCHANGED <<outcome, result>>
              ELSE /\ Return(first_block_text(resp, NoValidContent))
                   /\ UNCHANGED <<messages, response, block_idx, tool_results>>
    /\ UNCHANGED <<args, parked, current_round, has_errors, tool_execution_history,
                   last_response, tool_calls>>

\* generate_response: the endpoint answers the first call
FirstResponds ==
    /\ pc = "first"
    /\ \E sr \in StopReasons, sh \in ContentShapes :
        LET resp == Response(Len(api_calls) + 1, sr, sh)
            first == NextToolUse(resp.content, 1)
        IN /\ api_calls' = LogCall(first_params, "first")
           /\ api_returns' = Append(api_returns, resp)
           /\ IF /\ resp.stop_reason = "tool_use" /\ tool_manager
                 /\ first <= Len(resp.content) /\ resp.content[first] = None
              THEN /\ Raise(NoTypeAttribute)
                   /\ UNCHANGED <<messages, response, block_idx, tool_results>>
              ELSE IF resp.stop_reason = "tool_use" /\ tool_manager
              THEN /\ messages' = Append(messages, assistant_turn(resp))
                   /\ response' = resp
                   /\ block_idx' = first
                   /\ tool_results' = <<>>
                   /\ pc' = IF first <= Len(resp.content) THEN "single_tools"
                                                         ELSE "followup"
                   /\ UNCHANGED <<outcome, result>>
              ELSE /\ Return(first_block_text(resp, NoValidContent))
                   /\ UNCHANGED <<messages, response, block_idx, tool_results>>
    /\ UNCHANGED <<args, parked, current_round, has_errors, tool_execution_history,
                   last_response, tool_calls>>

\* generate_response: the first call fails and is issued again
FirstRaises_retrying ==
    /\ pc = "first"
    /\ \E msg \in ErrorMessages :
        /\ api_calls' = LogCall(first_params, "first")
        /\ api_returns' = Append(api_returns, [raised |-> msg])
    /\ UNCHANGED <<args, parked, pc, current_round, has_errors, messages,
                   tool_execution_history, response, last_response, block_idx,
                   tool_results, tool_calls, outcome, result>>

\* generate_response: the first call fails and the exception propagates
FirstRaises ==
    /\ pc = "first"
    /\ \E msg \in ErrorMessages :
        /\ api_calls' = LogCall(first_params, "first")
        /\ api_returns' = Append(api_returns, [raised |-> msg])
        /\ Raise(msg)
    /\ UNCHANGED <<args, parked, current_round, has_errors, messages,
                   tool_execution_history, response, last_response, block_idx,
                   tool_results, tool_calls>>

\* _handle_tool_execution: one tool_use block, execute_tool returns
SingleToolSucceeds ==
    /\ pc = "single_tools"
    /\ \E tool_result \in ToolOutputs :
        LET block == response.content[block_idx]
            results == Append(tool_results, tool_result_entry(block, tool_result))
            next == NextToolUse(response.content, block_idx + 1)
        IN /\ tool_calls' = LogTool(block, TRUE, tool_result)
           /\ tool_results' = results
           /\ IF next <= Len(response.content) /\ response.content[next] = None
              THEN /\ block_idx' = next
                   /\ Raise(NoTypeAttribute)
                   /\ UNCHANGED messages
              ELSE IF next <= Len(response.content)
              THEN /\ block_idx' = next
                   /\ UNCHANGED <<pc, messages, outcome, result>>
              ELSE /\ messages' = append_results(messages, results)
                   /\ pc' = "followup"
                   /\ UNCHANGED <<block_idx, outcome, result>>
    /\ UNCHANGED <<args, parked, current_round, has_errors, tool_execution_history,
                   response, last_response, api_calls, api_returns>>

\* _handle_tool_execution: execute_tool raises, the exception is swallowed and
\* the follow-up call is made with the results gathered so far
SingleToolRaises_handled ==
    /\ pc = "single_tools"
    /\ tool_calls' = LogTool(response.content[block_idx], FALSE, None)
    /\ messages' = IF tool_results # <<>>
                   THEN Append(messages, [role |-> "user", content |-> tool_results])
                   ELSE messages
    /\ pc' = "followup"
    /\ UNCHANGED <<args, parked, current_round, has_errors,
                   tool_execution_history, response, last_response, block_idx,
                   tool_results, api_calls, api_returns, outcome, result>>

\* _handle_tool_execution: execute_tool raises and the exception propagates
SingleToolRaises ==
    /\ pc = "single_tools"
    /\ \E msg \in ErrorMessages :
        /\ tool_calls' = LogTool(response.content[block_idx], FALSE, None)
        /\ Raise(msg)
    /\ UNCHANGED <<args, parked, current_round, has_errors, messages,
                   tool_execution_history, response, last_response, block_idx,
                   tool_results, api_calls, api_returns>>

\* _handle_tool_execution: the endpoint answers the follow-up call
FollowUpResponds ==
    /\ pc = "followup"
    /\ \E sr \in StopReasons, sh \in ContentShapes :
        LET resp == Response(Len(api_calls) + 1, sr, sh)
        IN /\ api_calls' = LogCall(followup_params, "followup")
           /\ api_returns' = Append(api_returns, resp)
           /\ Return(first_block_text(resp, NoValidContentAfterTools))
    /\ UNCHANGED <<args, parked, current_round, has_errors, messages,
                   tool_execution_history, response, last_response, block_idx,
                   tool_results, tool_calls>>

\* _handle_tool_execution: the follow-up call fails and the exception propagates
FollowUpRaises ==
    /\ pc = "followup"
    /\ \E msg \in ErrorMessages :
        /\ api_calls' = LogCall(followup_params, "followup")
        /\ api_returns' = Append(api_returns, [raised |-> msg])
        /\ Raise(msg)
    /\ UNCHANGED <<args, parked, current_round, has_errors, messages,
                   tool_execution_history, response, last_response, block_idx,
                   tool_results, tool_calls>>

\* ------------------------------------------------------------ specification

Next ==
    \/ RoundResponds
    \/ RoundRaises
    \/ ToolSucceeds
    \/ ToolRaises
    \/ FinalResponds
    \/ FinalRaises
    \/ ReturnLast
    \/ FirstResponds
    \/ FirstRaises
    \/ SingleToolSucceeds
    \/ SingleToolRaises
    \/ FollowUpResponds
    \/ FollowUpRaises

Spec == Init /\ [][Next]_vars


\* ------------------------------------------- two calls on one AIGenerator

\* The frame of the running call: its arguments, its round state and its other
\* locals, its position, and what its mocks logged.  An AIGenerator keeps
\* nothing else than its client, its model name and its base parameters,
\* which no call writes.
Frame ==
    [path |-> path, max_rounds |-> max_rounds, tools |-> tools, tool_manager
     |-> tool_manager, conversation_history |-> conversation_history, pc |->
     pc, current_round |-> current_round, has_errors |-> has_errors, messages
     |-> messages, tool_execution_history |-> tool_execution_history, response
     |-> response, last_response |-> last_response, block_idx |-> block_idx,
     tool_results |-> tool_results, api_calls |-> api_calls, api_returns |->
     api_returns, tool_calls |-> tool_calls, outcome |-> outcome, result |->
     result]

\* the frame of a call that has just been entered
NewCall(p, mr, t, tm, h) ==
    [path |-> p, max_rounds |-> mr, tools |-> t, tool_manager |-> tm,
     conversation_history |-> h,
     pc |-> IF p = "sequential" THEN "loop" ELSE "first",
     current_round |-> FirstRound, has_errors |-> FALSE,
     messages |-> <<[role |-> "user", content |-> Query]>>,
     tool_execution_history |-> <<>>, response |-> None,
     last_response |-> None, block_idx |-> 0, tool_results |-> <<>>,
     api_calls |-> <<>>, api_returns |-> <<>>, tool_calls |-> <<>>,
     outcome |-> "running", result |-> ""]

\* the call of frame f is the running one
Running(f) ==
    /\ path = f.path
    /\ max_rounds = f.max_rounds
    /\ tools = f.tools
    /\ tool_manager = f.tool_manager
    /\ conversation_history = f.conversation_history
    /\ pc = f.pc
    /\ current_round = f.current_round
    /\ has_errors = f.has_errors
    /\ messages = f.messages
    /\ tool_execution_history = f.tool_execution_history
    /\ response = f.response
    /\ last_response = f.last_response
    /\ block_idx = f.block_idx
    /\ tool_results = f.tool_results
    /\ api_calls = f.api_calls
    /\ api_returns = f.api_returns
    /\ tool_calls = f.tool_calls
    /\ outcome = f.outcome
    /\ result = f.result

\* a call resumed with a round state that belongs to the AIGenerator instead
\* of the call: it goes on with the round state the other call left
Resume_sharing_round_state(f) ==
    /\ path' = f.path
    /\ max_rounds' = f.max_rounds
    /\ tools' = f.tools
    /\ tool_manager' = f.tool_manager
    /\ conversation_history' = f.conversation_history
    /\ pc' = f.pc
    /\ response' = f.response
    /\ last_response' = f.last_response
    /\ block_idx' = f.block_idx
    /\ tool_results' = f.tool_results
    /\ api_calls' = f.api_calls
    /\ api_returns' = f.api_returns
    /\ tool_calls' = f.tool_calls
    /\ outcome' = f.outcome
    /\ result' = f.result
    /\ UNCHANGED <<current_round, has_errors, messages, tool_execution_history>>

\* the call of frame f is resumed where it was left: round_state and the
\* other locals belong to the call
Resume(f) ==
    /\ path' = f.path
    /\ max_rounds' = f.max_rounds
    /\ tools' = f.tools
    /\ tool_manager' = f.tool_manager
    /\ conversation_history' = f.conversation_history
    /\ pc' = f.pc
    /\ current_round' = f.current_round
    /\ has_errors' = f.has_errors
    /\ messages' = f.messages
    /\ tool_execution_history' = f.tool_execution_history
    /\ response' = f.response
    /\ last_response' = f.last_response
    /\ block_idx' = f.block_idx
    /\ tool_results' = f.tool_results
    /\ api_calls' = f.api_calls
    /\ api_returns' = f.api_returns
    /\ tool_calls' = f.tool_calls
    /\ outcome' = f.outcome
    /\ result' = f.result

\* two threads inside generate_response_with_sequential_tools of the same
\* AIGenerator: the running call is suspended and the other one resumed
Switch ==
    /\ parked # None
    /\ parked.pc # "done"
    /\ parked' = Frame
    /\ Resume(parked)

\* one call with any number of rounds and no history, one with the default
\* rounds and a history, both with tools and an executor
InitConcurrent ==
    /\ \E mr \in 0..DefaultMaxRounds :
          Running(NewCall("sequential", mr, <<"search_course_content">>, TRUE, ""))
    /\ parked = NewCall("sequential", DefaultMaxRounds,
                        <<"search_course_content">>, TRUE,
                        "User asked about ML basics.")

\* what the endpoint answers the two concurrent calls with: a text, one tool
\* request, or two tool requests
ConcurrentResponses(n) ==
    {Response(n, "end_turn", <<[type |-> "text", text |-> "Direct answer"]>>)}
      \cup {Response(n, "tool_use", <<a>>) : a \in ToolUseKinds}
      \cup {Response(n, "tool_use", <<a, b>>) : a \in ToolUseKinds, b \in ToolUseKinds}

\* the running call has just been answered by one of these
Answered == api_returns[Len(api_returns)] \in ConcurrentResponses(Len(api_returns))

NextConcurrent ==
    \/ RoundResponds /\ Answered'
    \/ RoundRaises
    \/ ToolSucceeds
    \/ ToolRaises
    \/ FinalResponds /\ Answered'
    \/ FinalRaises
    \/ ReturnLast
    \/ Switch

SpecConcurrent == InitConcurrent /\ [][NextConcurrent]_vars

\* the same query made once through each entry point: the call of
\* generate_response has ended and the call of
\* generate_response_with_sequential_tools begins
SecondRun ==
    /\ pc = "done"
    /\ parked # None
    /\ parked.pc # "done"
    /\ parked' = Frame
    /\ Resume(parked)

\* the second run is given one round, or none
InitReplay ==
    \E t \in ToolLists, tm \in BOOLEAN, h \in Histories, mr \in 0..1 :
        /\ Running(NewCall("single", DefaultMaxRounds, t, tm, h))
        /\ parked = NewCall("sequential", mr, t, tm, h)

NextReplay ==
    \/ Next
    \/ SecondRun

SpecReplay == InitReplay /\ [][NextReplay]_vars

\* a call of the sequential entry point, with tools offered and no history
InitRun ==
    \E mr \in 0..MaxRounds, tm \in BOOLEAN :
        /\ Running(NewCall("sequential", mr, <<"search_course_content">>, tm, ""))
        /\ parked = None

NextRun ==
    \/ RoundResponds
    \/ RoundRaises
    \/ ToolSucceeds
    \/ ToolRaises
    \/ FinalResponds
    \/ FinalRaises
    \/ ReturnLast

\* Every model call and every tool execution returns or fails, and the call
\* goes on whenever it can: no step of the call is put off for ever.
SpecFair == InitRun /\ [][NextRun]_vars /\ WF_vars(NextRun)

\* ---------------------------------------------------------------- typing

TypeOK ==
    /\ pc \in {"loop", "tools", "first", "single_tools", "followup", "done"}
    /\ outcome \in {"running", "returned", "raised"}
    /\ (pc = "done") = (outcome # "running")
    /\ current_round \in Nat
    /\ has_errors \in BOOLEAN
    /\ Len(api_calls) = Len(api_returns)

\* ================================================================ claims

Sequential == path = "sequential"

Done == pc = "done"

IsRaised(r) == "raised" \in DOMAIN r

IsResponse(r) == "content" \in DOMAIN r

\* every model call so far was answered
AllAnswered == \A i \in 1..Len(api_returns) : IsResponse(api_returns[i])

AllToolsSucceeded == \A j \in 1..Len(tool_calls) : tool_calls[j].ok

SitesOf(calls) == [i \in 1..Len(calls) |-> calls[i].site]

ToolsEnabled(call) == "tools" \in DOMAIN call.params

\* positions of the tool-use requests of a response
ToolUsePositions(resp) == ToolUseIndices(resp.content)

RECURSIVE TextsFrom(_, _)
\* the texts of the text blocks of content from position i on, in order
TextsFrom(content, i) ==
    IF i > Len(content) THEN <<>>
    ELSE IF "text" \in DOMAIN content[i]
         THEN <<content[i].text>> \o TextsFrom(content, i + 1)
         ELSE TextsFrom(content, i + 1)

HasText(resp) == TextsFrom(resp.content, 1) # <<>>

FirstText(resp) == Head(TextsFrom(resp.content, 1))

RECURSIVE ToolUseIdsFrom(_, _)
\* the identifiers of the tool-use requests of content from position i on
ToolUseIdsFrom(content, i) ==
    IF i > Len(content) THEN <<>>
    ELSE IF i \in ToolUseIndices(content)
         THEN <<content[i].id>> \o ToolUseIdsFrom(content, i + 1)
         ELSE ToolUseIdsFrom(content, i + 1)

\* the returned value is the text of resp (its first text block)
ReturnsTextOf(resp) ==
    /\ outcome = "returned"
    /\ HasText(resp) => result = FirstText(resp)

\* ---------------------------------------------------------------------- C1
\* C1: for every max_rounds >= 1, one call of the sequential entry point
\* issues at most max_rounds + 1 model calls: at most max_rounds inside the
\* round loop and at most one forced final call.
C1_ModelCallsBounded ==
    (Sequential /\ max_rounds >= 1) =>
        /\ Len(api_calls) <= max_rounds + 1
        /\ Cardinality({i \in 1..Len(api_calls) : api_calls[i].site = "round"})
             <= max_rounds
        /\ Cardinality({i \in 1..Len(api_calls) : api_calls[i].site = "final"})
             <= 1

\* the budget is used up: max_rounds in-loop calls and the final call
C1_Witness ==
    /\ Sequential /\ Done
    /\ max_rounds >= 2
    /\ Len(api_calls) = max_rounds + 1
    /\ api_calls[Len(api_calls)].site = "final"

\* ---------------------------------------------------------------------- C2
\* C2: in the sequential path, if the first response contains no tool-use
\* request, exactly one model call occurs, the tool executor is never
\* invoked, the round counter is not advanced, and the call has returned the
\* text of that response.
C2_DirectAnswer ==
    (/\ Sequential
     /\ Len(api_returns) >= 1
     /\ IsResponse(api_returns[1])
     /\ ToolUsePositions(api_returns[1]) = {}) =>
        /\ Len(api_calls) = 1
        /\ tool_calls = <<>>
        /\ current_round = FirstRound
        /\ Done
        /\ ReturnsTextOf(api_returns[1])

\* a direct text answer with tools and an executor available
C2_Witness ==
    /\ Sequential /\ Done
    /\ tools # <<>> /\ tool_manager
    /\ Len(api_returns) = 1
    /\ IsResponse(api_returns[1])
    /\ api_returns[1].stop_reason = "end_turn"
    /\ ToolUsePositions(api_returns[1]) = {}
    /\ result = "Direct answer"

\* ---------------------------------------------------------------------- C3
\* the model asks for exactly one tool in response r
RequestsOneTool(r) ==
    /\ IsResponse(r)
    /\ r.stop_reason = "tool_use"
    /\ Cardinality(ToolUsePositions(r)) = 1

\* the run is over; the model asked for one tool on each of the max_rounds
\* rounds, every tool succeeded and every model call was answered
C3_Scenario ==
    /\ Sequential /\ Done
    /\ max_rounds >= 1
    /\ tools # <<>> /\ tool_manager
    /\ AllAnswered /\ AllToolsSucceeded
    /\ Len(api_returns) >= max_rounds
    /\ \A i \in 1..max_rounds : RequestsOneTool(api_returns[i])

\* C3: if the model requests one tool on every one of the max_rounds rounds
\* and every tool succeeds, there are exactly max_rounds + 1 model calls
\* (max_rounds in-loop calls with tools, then one final call without), exactly
\* max_rounds tool executions, and the text of the final call is returned.
C3_BudgetExhausted ==
    C3_Scenario =>
        /\ Len(api_calls) = max_rounds + 1
        /\ \A i \in 1..max_rounds :
              api_calls[i].site = "round" /\ ToolsEnabled(api_calls[i])
        /\ api_calls[max_rounds + 1].site = "final"
        /\ ~ToolsEnabled(api_calls[max_rounds + 1])
        /\ "tool_choice" \notin DOMAIN api_calls[max_rounds + 1].params
        /\ Len(tool_calls) = max_rounds
        /\ ReturnsTextOf(api_returns[max_rounds + 1])

\* two rounds, two executions, three calls, the third call's text returned
C3_Witness ==
    /\ C3_Scenario
    /\ max_rounds = 2
    /\ Len(api_calls) = 3
    /\ Len(tool_calls) = 2
    /\ result = "Direct answer"

\* ---------------------------------------------------------------------- C4
\* response r asks for tools
RequestsTools(r) ==
    /\ IsResponse(r)
    /\ r.stop_reason = "tool_use"
    /\ ToolUsePositions(r) # {}

\* response r is a plain text answer
PlainText(r) ==
    /\ IsResponse(r)
    /\ r.stop_reason = "end_turn"
    /\ ToolUsePositions(r) = {}
    /\ HasText(r)

\* the model asked for tools on calls 1..k, all tools succeeded, and call
\* k + 1 was answered with plain text
C4_Scenario(k) ==
    /\ Sequential
    /\ tools # <<>> /\ tool_manager
    /\ k >= 1 /\ k < max_rounds
    /\ AllToolsSucceeded
    /\ Len(api_returns) >= k + 1
    /\ \A i \in 1..k : RequestsTools(api_returns[i])
    /\ PlainText(api_returns[k + 1])

RECURSIVE RequestedIds(_)
\* the identifiers of all tool-use requests of the responses rs, in order
RequestedIds(rs) ==
    IF rs = <<>> THEN <<>>
    ELSE ToolUseIdsFrom(Head(rs).content, 1) \o RequestedIds(Tail(rs))

\* C4: tools on rounds 1..k with k < max_rounds, then plain text on call
\* k + 1: exactly k + 1 model calls, all in-loop with tools enabled, no final
\* call, every requested tool executed exactly once, the text of call k + 1
\* returned.
C4_EarlyAnswer ==
    \A k \in 1..MaxRounds :
        C4_Scenario(k) =>
            /\ Done
            /\ Len(api_calls) = k + 1
            /\ \A i \in 1..(k + 1) :
                  api_calls[i].site = "round" /\ ToolsEnabled(api_calls[i])
            /\ [j \in 1..Len(tool_calls) |-> tool_calls[j].id]
                 = RequestedIds(SubSeq(api_returns, 1, k))
            /\ outcome = "returned"
            /\ result = FirstText(api_returns[k + 1])

\* one round of two tools, then the answer, with a round to spare
C4_Witness ==
    /\ C4_Scenario(1)
    /\ max_rounds = 2
    /\ Len(tool_calls) = 2
    /\ Done
    /\ result = "Direct answer"

\* ---------------------------------------------------------------------- C5
\* C5: every value returned by the sequential entry point is a non-empty
\* string, whatever the model responses and the tool executor do.
C5_NonEmptyResult ==
    (Sequential /\ outcome = "returned") => result # ""

\* ---------------------------------------------------------------------- C6
LastReturn == api_returns[Len(api_returns)]

TransportFailed == Len(api_returns) >= 1 /\ IsRaised(LastReturn)

C7_NoRetry ==
    \A i \in 1..Len(api_returns) :
        IsRaised(api_returns[i]) =>
            /\ i = Len(api_returns)
            /\ Len(api_calls) = i
            /\ Done
            /\ \A j \in 1..Len(tool_calls) : tool_calls[j].call < i

\* the follow-up call of the single-call path failed after a tool ran
C7_Witness ==
    /\ path = "single" /\ Done
    /\ TransportFailed
    /\ Len(api_calls) = 2
    /\ Len(tool_calls) >= 1
    /\ outcome = "raised"

\* ---------------------------------------------------------------------- C8
\* the executor invocations that followed model call n, as identifiers
BatchOf(n) ==
    LET RECURSIVE Ids(_)
        Ids(j) == IF j > Len(tool_calls) THEN <<>>
                  ELSE IF tool_calls[j].call = n
                       THEN <<tool_calls[j].id>> \o Ids(j + 1)
                       ELSE Ids(j + 1)
    IN Ids(1)

\* C8: if a tool execution fails in round K of the sequential path, the
\* executor was called exactly for the requests of round K up to and
\* including the failing one, in request order; the remaining requests of
\* round K are not dispatched and the executor is never called again.
C8_FailureStopsDispatch ==
    Sequential =>
        \A j \in 1..Len(tool_calls) :
            ~tool_calls[j].ok =>
                LET n == tool_calls[j].call
                    requested == ToolUseIdsFrom(api_returns[n].content, 1)
                IN /\ j = Len(tool_calls)
                   /\ tool_calls[j].round = api_calls[n].round
                   /\ Len(BatchOf(n)) <= Len(requested)
                   /\ BatchOf(n) = SubSeq(requested, 1, Len(BatchOf(n)))
                   /\ BatchOf(n)[Len(BatchOf(n))] = tool_calls[j].id

\* the second of three requests of round 1 failed, with a round to spare
C8_Witness ==
    /\ Sequential /\ Done
    /\ max_rounds >= 2
    /\ Len(tool_calls) = 2
    /\ tool_calls[1].ok /\ ~tool_calls[2].ok
    /\ tool_calls[2].round = 1
    /\ Len(ToolUseIdsFrom(api_returns[1].content, 1)) = 3

\* ---------------------------------------------------------------------- C9
ToolFailed == \E j \in 1..Len(tool_calls) : ~tool_calls[j].ok

\* C9: when the tool executor raises in the sequential path, no exception
\* escapes: the round state is marked errored, the loop terminates, and a
\* non-empty string is returned.
C9_ToolFailureHandled ==
    (Sequential /\ ToolFailed) =>
        /\ has_errors
        /\ outcome # "raised"
        /\ pc \in {"loop", "done"}
        /\ \A i \in 1..Len(api_calls) :
              api_calls[i].has_errors => api_calls[i].site = "final"
        /\ Done => (outcome = "returned" /\ result # "")

\* --------------------------------------------------------------------- C10
\* C10 as claimed: once the round state is marked errored no further model
\* call is issued, and the forced final call is issued only after the round
\* budget was exhausted.
C10_ErrorIsTerminal ==
    Sequential =>
        \A i \in 1..Len(api_calls) :
            /\ ~api_calls[i].has_errors
            /\ api_calls[i].site = "final" => api_calls[i].round > max_rounds

\* what the final call i gave back to the caller
FinalOutcome(i) ==
    IF IsRaised(api_returns[i])
    THEN "Error generating final response: " \o api_returns[i].raised
    ELSE IF HasText(api_returns[i]) THEN FirstText(api_returns[i])
         ELSE "Error: No valid response content received from AI."

\* C10, amended: once the round state is marked errored no further in-loop
\* model call and no further tool execution is issued, but the forced
\* tool-free final call still is, exactly once, and its text (or a
\* diagnostic placeholder) is returned.  The final call is issued whenever
\* the loop ends with the last response holding tool-use requests: after the
\* round budget is exhausted or after a tool execution failure.
C10_ErrorStopsRounds ==
    Sequential =>
        /\ \A i \in 1..Len(api_calls) :
              api_calls[i].has_errors =>
                  /\ api_calls[i].site = "final"
                  /\ i = Len(api_calls)
                  /\ ~ToolsEnabled(api_calls[i])
        /\ \A j \in 1..Len(tool_calls) : ~tool_calls[j].has_errors
        /\ \A i \in 1..Len(api_calls) :
              api_calls[i].site = "final" =>
                  /\ i = Len(api_calls) /\ i >= 2
                  /\ api_calls[i].round > max_rounds \/ api_calls[i].has_errors
                  /\ IsResponse(api_returns[i - 1])
                  /\ ToolUsePositions(api_returns[i - 1]) # {}
        /\ (has_errors /\ Done) =>
              /\ Len(api_calls) >= 2
              /\ api_calls[Len(api_calls)].site = "final"
              /\ api_calls[Len(api_calls)].has_errors
              /\ outcome = "returned"
              /\ result = FinalOutcome(Len(api_calls))

\* a tool failed in round 1 of 2: the final call is made with the budget not
\* exhausted and its text is returned
C10_Witness ==
    /\ Sequential /\ Done
    /\ has_errors
    /\ max_rounds = 2 /\ current_round = 2
    /\ Len(api_calls) = 2
    /\ api_calls[2].site = "final"
    /\ result = "Direct answer"

\* --------------------------------------------------------------------- C11
\* the first response asked for one tool and its execution, the only one of
\* the run, failed
C11_Scenario ==
    /\ Sequential
    /\ Len(api_returns) >= 1
    /\ RequestsOneTool(api_returns[1])
    /\ Len(tool_calls) >= 1
    /\ ~tool_calls[1].ok
    /\ tool_calls[1].round = FirstRound

\* C11: if the only tool execution of round 1 fails, exactly one further
\* model call follows the failure: two model calls in total and one tool
\* execution attempt, and what the second model call produced is returned.
C11_OneCallAfterFailure ==
    C11_Scenario =>
        /\ Len(tool_calls) = 1
        /\ Len(api_calls) \in {1, 2}
        /\ (Len(api_calls) = 1) = (pc = "loop")
        /\ Done =>
              /\ Len(api_calls) = 2
              /\ api_calls[2].site = "final"
              /\ outcome = "returned"
              /\ result = FinalOutcome(2)
              /\ (IsResponse(api_returns[2]) /\ HasText(api_returns[2])) =>
                    result = FirstText(api_returns[2])

\* the tool of round 1 failed with a round to spare and the second call's
\* text came back
C11_Witness ==
    /\ C11_Scenario /\ Done
    /\ max_rounds = 2
    /\ Len(api_calls) = 2
    /\ Len(tool_calls) = 1
    /\ IsResponse(api_returns[2])
    /\ result = "Direct answer"

\* --------------------------------------------------------------------- C12
\* the step issues an in-loop model call
InLoopCall ==
    /\ Len(api_calls') = Len(api_calls) + 1
    /\ api_calls'[Len(api_calls')].site = "round"

\* C12: in every round state the sequential path reaches, can_continue is
\* true exactly when current_round <= max_rounds and has_errors is false:
\* the loop issues one more in-loop call from that state if so, and leaves
\* the loop otherwise.
C12_CanContinue ==
    [][(Sequential /\ pc = "loop") =>
          /\ can_continue = (current_round <= max_rounds /\ ~has_errors)
          /\ InLoopCall = (current_round <= max_rounds /\ ~has_errors)
          /\ (current_round = max_rounds /\ ~has_errors) => InLoopCall
          /\ (current_round = max_rounds + 1) => ~InLoopCall
          /\ has_errors => ~InLoopCall]_vars

\* the loop test is made with the error flag set and rounds to spare, and
\* the loop is left
C12_Witness ==
    /\ Sequential /\ Done
    /\ has_errors
    /\ current_round <= max_rounds
    /\ Len(api_calls) = 2
    /\ api_calls[2].site = "final"
    /\ api_calls[2].round = max_rounds
    /\ api_calls[2].has_errors

\* --------------------------------------------------------------------- C13
\* C13: every in-loop model call of the sequential path carries the tool
\* descriptors, with tool_choice "auto", exactly when a non-empty tool list
\* was supplied; the forced final call carries neither tools nor tool_choice.
C13_ToolsOffered ==
    Sequential =>
        \A i \in 1..Len(api_calls) :
            LET params == api_calls[i].params
            IN /\ api_calls[i].site \in {"round", "final"}
               /\ api_calls[i].site = "round" =>
                     /\ ("tools" \in DOMAIN params) = (tools # <<>>)
                     /\ ("tool_choice" \in DOMAIN params) = (tools # <<>>)
                     /\ tools # <<>> =>
                           /\ params.tools = tools
                           /\ params.tool_choice = "auto"
               /\ api_calls[i].site = "final" =>
                     /\ "tools" \notin DOMAIN params
                     /\ "tool_choice" \notin DOMAIN params

\* two in-loop calls that offered the supplied tools, then the final call
C13_Witness ==
    /\ Sequential /\ Done
    /\ tools # <<>>
    /\ Len(api_calls) = 3
    /\ ToolsEnabled(api_calls[1]) /\ ToolsEnabled(api_calls[2])
    /\ api_calls[3].site = "final"
    /\ ~ToolsEnabled(api_calls[3])

\* --------------------------------------------------------------------- C15
Single == path = "single"

\* the first response of the single-call path asks for tool use and a tool
\* executor was supplied
C15_Scenario ==
    /\ Single
    /\ tool_manager
    /\ Len(api_returns) >= 1
    /\ IsResponse(api_returns[1])
    /\ api_returns[1].stop_reason = "tool_use"
    /\ NoneIndices(api_returns[1].content) = {}

\* C15: in the single-call path, when the first response asks for tool use
\* and an executor was supplied, every requested tool is executed once, in
\* request order, then exactly one follow-up model call is issued without
\* tools and its text is returned; a run of this path issues at most two
\* model calls and executes no tool after the follow-up call.
C15_ToolsThenFollowUp ==
    Single =>
        /\ Len(api_calls) <= 2
        /\ \A i \in 1..Len(api_calls) :
              api_calls[i].site = (IF i = 1 THEN "first" ELSE "followup")
        /\ \A j \in 1..Len(tool_calls) : tool_calls[j].call = 1
        /\ (C15_Scenario /\ AllToolsSucceeded /\ Done) =>
              /\ [j \in 1..Len(tool_calls) |-> tool_calls[j].id]
                   = ToolUseIdsFrom(api_returns[1].content, 1)
              /\ Len(api_calls) = 2
              /\ "tools" \notin DOMAIN api_calls[2].params
              /\ "tool_choice" \notin DOMAIN api_calls[2].params
              /\ IsResponse(api_returns[2]) =>
                    /\ outcome = "returned"
                    /\ (/\ api_returns[2].content # <<>>
                        /\ "text" \in DOMAIN api_returns[2].content[1]) =>
                          result = api_returns[2].content[1].text

\* two requested tools ran in order, the follow-up call answered
C15_Witness ==
    /\ C15_Scenario /\ Done
    /\ tools # <<>>
    /\ Len(tool_calls) = 2
    /\ AllToolsSucceeded
    /\ Len(api_calls) = 2
    /\ IsResponse(api_returns[2])
    /\ result = "Direct answer"

NoValidContentPhrase == "Error: No valid response content received"

\* the strings that contain the phrase, by what follows it
ContainsPhrase(str) ==
    \E rest \in {" from AI.", " from AI after tool execution."} :
        str = NoValidContentPhrase \o rest

EmptyResponse(r) == IsResponse(r) /\ r.content = <<>>

\* C18 as claimed: in the single-call path a response with an empty content
\* list never makes the call raise; the call returns a string containing
\* "Error: No valid response content received", both when the first response
\* is empty and when the follow-up response is empty.
C18_EmptyContentPlaceholder ==
    (/\ Single /\ Done
     /\ {i \in 1..Len(api_returns) : EmptyResponse(api_returns[i])} # {}) =>
        /\ outcome = "returned"
        /\ ContainsPhrase(result)

\* an empty first response starts tool handling: stop reason "tool_use" and
\* an executor supplied
EmptyStartsToolHandling ==
    /\ EmptyResponse(api_returns[1])
    /\ api_returns[1].stop_reason = "tool_use"
    /\ tool_manager

\* C18, amended: an empty response that ends the call never makes it raise:
\* an empty first response that does not start tool handling is answered, with
\* no further call, by "Error: No valid response content received from AI.",
\* and an empty follow-up response by "Error: No valid response content
\* received from AI after tool execution.".  An empty first response with
\* stop reason "tool_use" and an executor supplied does not end the call: no
\* tool is executed, the follow-up call is issued and decides the outcome.
C18_EmptyContentHandled ==
    (Single /\ Len(api_returns) >= 1) =>
        /\ (EmptyResponse(api_returns[1]) /\ ~EmptyStartsToolHandling) =>
              /\ Done
              /\ Len(api_calls) = 1
              /\ outcome = "returned"
              /\ result = "Error: No valid response content received from AI."
              /\ ContainsPhrase(result)
        /\ EmptyStartsToolHandling =>
              /\ tool_calls = <<>>
              /\ (pc = "followup" /\ Len(api_calls) = 1)
                   \/ (Done /\ Len(api_calls) = 2)
        /\ (Len(api_returns) = 2 /\ EmptyResponse(api_returns[2])) =>
              /\ Done
              /\ outcome = "returned"
              /\ result = "Error: No valid response content received from AI after tool execution."
              /\ ContainsPhrase(result)

\* a tool ran and the follow-up response was empty
C18_Witness ==
    /\ Single /\ Done
    /\ Len(tool_calls) = 1
    /\ Len(api_returns) = 2
    /\ EmptyResponse(api_returns[2])
    /\ outcome = "returned"
    /\ ContainsPhrase(result)

\* --------------------------------------------------------------------- C19
\* the first response of the single-call path is a natural completion whose
\* first content block carries no text: a non-text block, or None
C19_Scenario ==
    /\ Single
    /\ Len(api_returns) >= 1
    /\ IsResponse(api_returns[1])
    /\ api_returns[1].stop_reason = "end_turn"
    /\ api_returns[1].content # <<>>
    /\ "text" \notin DOMAIN api_returns[1].content[1]

EmptyRoundResponses ==
    {i \in 1..Len(api_returns) :
        api_calls[i].site = "round" /\ EmptyResponse(api_returns[i])}

\* C20 as claimed: in the sequential path an empty model response (no
\* content blocks) is treated as an error state: the round state is marked
\* errored, the loop exits with no further model call or tool execution, and
\* a diagnostic placeholder is returned instead of raising.
C20_EmptyResponseIsError ==
    (Sequential /\ EmptyRoundResponses # {}) =>
        /\ has_errors
        /\ Done
        /\ outcome = "returned"
        /\ result = "Error: No valid response content received from AI."

\* C20, amended: an empty model response is taken as a final answer without
\* text: the round state is not marked errored and the round counter is not
\* advanced, the call ends at once with no further model call or tool
\* execution, and the diagnostic placeholder is returned instead of raising;
\* so it is for an empty response to the forced final call.
C20_EmptyResponseEndsRun ==
    Sequential =>
        /\ \A i \in EmptyRoundResponses :
              /\ ~has_errors
              /\ current_round = api_calls[i].round
              /\ Done
              /\ i = Len(api_calls)
              /\ \A j \in 1..Len(tool_calls) : tool_calls[j].call < i
              /\ outcome = "returned"
              /\ result = "Error: No valid response content received from AI."
        /\ \A i \in 1..Len(api_returns) :
              (api_calls[i].site = "final" /\ EmptyResponse(api_returns[i])) =>
                  /\ Done
                  /\ i = Len(api_calls)
                  /\ outcome = "returned"
                  /\ result = "Error: No valid response content received from AI."

\* after one round of tools the second in-loop response is empty
C20_Witness ==
    /\ Sequential /\ Done
    /\ 2 \in EmptyRoundResponses
    /\ Len(tool_calls) >= 1
    /\ ~has_errors
    /\ current_round = 2
    /\ outcome = "returned"

\* --------------------------------------------------------------------- C14
\* the system content of a call made with history h
SystemOf(h) ==
    IF h # ""
    THEN SYSTEM_PROMPT \o "\n\nPrevious conversation:\n" \o h
    ELSE SYSTEM_PROMPT

\* the number of successful executor invocations of frame f up to its j-th
Rank(f, j) == Cardinality({i \in 1..j : f.tool_calls[i].ok})

RECURSIVE ResultsFrom(_, _, _)
\* the tool_result entries of the successful executor invocations of frame f
\* that followed its model call n, from its j-th invocation on
ResultsFrom(f, n, j) ==
    IF j > Len(f.tool_calls) THEN <<>>
    ELSE IF f.tool_calls[j].call = n /\ f.tool_calls[j].ok
         THEN <<[type |-> "tool_result",
                 tool_use_id |-> f.tool_calls[j].id,
                 content |-> f.tool_execution_history[Rank(f, j)].result]>>
                \o ResultsFrom(f, n, j + 1)
         ELSE ResultsFrom(f, n, j + 1)

\* the turns the round of model call n adds to the transcript of frame f, told
\* from f's own response and f's own executor results
TurnsOf(f, n) ==
    LET r == f.api_returns[n]
        results == ResultsFrom(f, n, 1)
    IN (IF IsResponse(r) /\ r.stop_reason = "tool_use" /\ f.tool_manager
        THEN <<[role |-> "assistant", content |-> r.content]>>
        ELSE <<>>)
         \o (IF results # <<>>
             THEN <<[role |-> "user", content |-> results]>>
             ELSE <<>>)

RECURSIVE TranscriptOf(_, _)
\* the transcript of frame f after the rounds of its first n model calls
TranscriptOf(f, n) ==
    IF n = 0
    THEN <<[role |-> "user", content |-> Query]>>
    ELSE TranscriptOf(f, n - 1) \o TurnsOf(f, n)

\* the in-loop model calls of frame f
RoundCalls(f) == {i \in 1..Len(f.api_calls) : f.api_calls[i].site = "round"}

\* the rounds of frame f that ended with pending tool-use requests
AdvancedRounds(f) ==
    {i \in RoundCalls(f) :
        /\ IsResponse(f.api_returns[i])
        /\ ToolUseIndices(f.api_returns[i].content) # {}
        /\ ~(i = Len(f.api_calls) /\ f.pc = "tools")}

\* what a sequential call gives back, told from its own last model call
ResultOf(f) ==
    LET n == Len(f.api_calls)
    IN IF n = 0 THEN "Error: No response received"
       ELSE IF IsRaised(f.api_returns[n])
       THEN (IF f.api_calls[n].site = "round"
             THEN "Error during sequential tool execution: "
             ELSE "Error generating final response: ") \o f.api_returns[n].raised
       ELSE IF HasText(f.api_returns[n]) THEN FirstText(f.api_returns[n])
       ELSE "Error: No valid response content received from AI."

\* Frame f is that of a sequential call running alone: every model call, the
\* round state and the result follow from the call's own arguments, the
\* responses to its own model calls and its own executor results.
RunsAlone(f) ==
    /\ \A i \in 1..Len(f.api_calls) :
          LET call == f.api_calls[i]
          IN /\ call.params.messages = TranscriptOf(f, i - 1)
             /\ call.params.system = SystemOf(f.conversation_history)
             /\ ToolsEnabled(call) = (call.site = "round" /\ f.tools # <<>>)
             /\ ToolsEnabled(call) => call.params.tools = f.tools
             /\ call.site = "round" =>
                   /\ call.round = i
                   /\ i <= f.max_rounds
                   /\ ~call.has_errors
             /\ call.site = "final" =>
                   /\ i = Len(f.api_calls)
                   /\ i - 1 \in AdvancedRounds(f)
    /\ \A j \in 1..Len(f.tool_calls) :
          LET n == f.tool_calls[j].call
          IN /\ n \in RoundCalls(f)
             /\ f.tool_calls[j].round = n
             /\ f.tool_calls[j].id \in
                   {f.api_returns[n].content[k].id :
                       k \in ToolUseIndices(f.api_returns[n].content)}
    /\ f.current_round = FirstRound + Cardinality(AdvancedRounds(f))
    /\ f.has_errors = (\E j \in 1..Len(f.tool_calls) : ~f.tool_calls[j].ok)
    /\ f.pc # "tools" => f.messages = TranscriptOf(f, Cardinality(RoundCalls(f)))
    /\ f.pc = "done" =>
          /\ f.outcome = "returned"
          /\ f.result = ResultOf(f)

\* C14: two independent sequential calls on the same AIGenerator, their steps
\* interleaved in any order, never read or write each other's round state
\* (round counter, error flag, transcript, tool log): each issues the model
\* calls and tool executions, and returns the result, that it does alone.
C14_NoInterference ==
    /\ parked # None
    /\ RunsAlone(Frame)
    /\ RunsAlone(parked)

\* both calls are in the middle of a tool batch, in different rounds
C14_Witness ==
    /\ parked # None
    /\ pc = "tools" /\ parked.pc = "tools"
    /\ block_idx = 2 /\ parked.block_idx = 1
    /\ current_round = 2 /\ parked.current_round = 1
    /\ Len(messages) # Len(parked.messages)
    /\ Len(tool_calls) = 3 /\ Len(parked.tool_calls) = 0

\* --------------------------------------------------------------------- C16
\* the query has been run through generate_response (the parked frame) and
\* then through generate_response_with_sequential_tools with max_rounds = 1
BothRan ==
    /\ parked # None
    /\ parked.path = "single" /\ parked.pc = "done"
    /\ path = "sequential" /\ max_rounds = 1 /\ Done

\* runs a and b met the same script: the same answer to their k-th model
\* call and the same outcome of their k-th tool execution
SameScript(a, b) ==
    /\ \A i \in 1..Len(a.api_returns) :
          i <= Len(b.api_returns) => a.api_returns[i] = b.api_returns[i]
    /\ \A j \in 1..Len(a.tool_calls) :
          j <= Len(b.tool_calls) => a.tool_calls[j].ok = b.tool_calls[j].ok

\* the model calls of a run: transcript, system content, tools and tool_choice
ModelCalls(f) == [i \in 1..Len(f.api_calls) |-> f.api_calls[i].params]

\* the tool executions of a run
Executions(f) ==
    [j \in 1..Len(f.tool_calls) |->
        [name |-> f.tool_calls[j].name, input |-> f.tool_calls[j].input,
         id |-> f.tool_calls[j].id, ok |-> f.tool_calls[j].ok]]

\* runs a and b issued the same model calls and the same tool executions and
\* gave the caller the same outcome
SameRun(a, b) ==
    /\ ModelCalls(a) = ModelCalls(b)
    /\ Executions(a) = Executions(b)
    /\ a.outcome = b.outcome
    /\ a.result = b.result

BeginsWithText(r) == r.content # <<>> /\ "text" \in DOMAIN r.content[1]

\* The script met by run f has no transport failure, no tool failure and no
\* None block; its first response is either a tool request proper (stop
\* reason "tool_use", an executor supplied, at least one tool-use block) or
\* a response that holds no tool-use block, does not start tool handling and
\* has its text, if any, in its first block; the response to the second
\* model call begins with a text block.
ProperScript(f) ==
    /\ \A i \in 1..Len(f.api_returns) :
          /\ IsResponse(f.api_returns[i])
          /\ NoneIndices(f.api_returns[i].content) = {}
    /\ \A j \in 1..Len(f.tool_calls) : f.tool_calls[j].ok
    /\ Len(f.api_returns) >= 1
    /\ LET r == f.api_returns[1]
       IN \/ /\ r.stop_reason = "tool_use" /\ f.tool_manager
             /\ ToolUseIndices(r.content) # {}
          \/ /\ ~(r.stop_reason = "tool_use" /\ f.tool_manager)
             /\ ToolUseIndices(r.content) = {}
             /\ TextIndices(r) = {} \/ 1 \in TextIndices(r)
    /\ Len(f.api_returns) >= 2 => BeginsWithText(f.api_returns[2])

DiagnosticPrefix == "Error"

\* what follows the prefix in the diagnostic strings
DiagnosticTails ==
    {": No response received",
     ": No valid response content received from AI."}
      \cup {" during sequential tool execution: " \o msg :
               msg \in ErrorMessages \cup {NoTypeAttribute}}
      \cup {" generating final response: " \o msg : msg \in ErrorMessages}

\* str starts with the prefix
HasDiagnosticPrefix(str) ==
    {rest \in DiagnosticTails : str = DiagnosticPrefix \o rest} # {}

\* the call returned a diagnostic string instead of the text of a response:
\* no model call was made, or the last one failed, or its response holds no
\* text
Degraded ==
    /\ Sequential /\ outcome = "returned"
    /\ \/ api_calls = <<>>
       \/ IsRaised(LastReturn)
       \/ ~HasText(LastReturn)

C22_Terminates == Sequential ~> (Sequential /\ Done /\ outcome = "returned")

\* the model asked for tools on every response, the final one included, and
\* the call returned after max_rounds rounds and the final call
C22_Witness ==
    /\ Sequential /\ Done
    /\ max_rounds = MaxRounds
    /\ Len(api_calls) = max_rounds + 1
    /\ \A i \in 1..Len(api_returns) : RequestsTools(api_returns[i])
    /\ outcome = "returned"

\* --------------------------------------------------------------------- C23
\* the transcript sent with model call i
TranscriptAt(i) == api_calls[i].params.messages

\* no tool execution that followed model call n failed
BatchSucceeded(n) ==
    \A j \in 1..Len(tool_calls) : tool_calls[j].call = n => tool_calls[j].ok

\* the identifiers the entries of a tool-result turn are tagged with
ResultIds(turn) == [k \in 1..Len(turn.content) |-> turn.content[k].tool_use_id]

\* the transcript of model call i + 1 is that of model call i followed by the
\* assistant turn of response i and, unless a tool execution of the round
\* failed, by the tool-result turn that answers the requests of response i
RoundInTranscript(i) ==
    LET before == TranscriptAt(i)
        after == TranscriptAt(i + 1)
        r == api_returns[i]
        n == Len(before)
    IN /\ Len(after) >= n + 1
       /\ SubSeq(after, 1, n) = before
       /\ after[n + 1] = [role |-> "assistant", content |-> r.content]
       /\ BatchSucceeded(i) =>
             /\ Len(after) = n + 2
             /\ after[n + 2].role = "user"
             /\ ResultIds(after[n + 2]) = ToolUseIdsFrom(r.content, 1)

\* C23: rounds are strictly sequential: the model call of round N+1, and the
\* forced final call, is never issued before the assistant turn of round N
\* and the tool-result turn answering round N's tool-use requests are in the
\* transcript, also when no tool executor was supplied or the stop reason of
\* the response is not "tool_use" while its content holds tool-use blocks.
C23_RoundsSequential ==
    Sequential =>
        \A i \in 1..(Len(api_calls) - 1) : RoundInTranscript(i)

\* --------------------------------------------------------------------- C24
\* the executor invocations that followed model call n, in order
ExecutionsAfter(n) ==
    LET RECURSIVE From(_)
        From(j) == IF j > Len(tool_calls) THEN <<>>
                   ELSE IF tool_calls[j].call = n
                        THEN <<tool_calls[j]>> \o From(j + 1)
                        ELSE From(j + 1)
    IN From(1)

\* the response to model call n requested at least one tool and every
\* requested tool was executed and succeeded
CompleteBatch(n) ==
    /\ IsResponse(api_returns[n])
    /\ ToolUseIdsFrom(api_returns[n].content, 1) # <<>>
    /\ LET batch == ExecutionsAfter(n)
       IN /\ [k \in 1..Len(batch) |-> batch[k].id]
               = ToolUseIdsFrom(api_returns[n].content, 1)
          /\ \A k \in 1..Len(batch) : batch[k].ok

\* the transcript once the round of model call n is over
TranscriptAfter(n) ==
    IF n < Len(api_calls) THEN TranscriptAt(n + 1) ELSE messages

\* C24: after a round (sequential path) or the tool step (single-call path)
\* whose response requests n >= 1 tools that all succeed, the transcript has
\* grown by exactly two entries: an assistant turn holding the raw response,
\* then one user turn holding exactly n tool-result entries in request
\* order, each tagged with the identifier of its request and carrying the
\* result of that request.
C24_RoundAddsTwoTurns ==
    \A n \in 1..Len(api_calls) :
        CompleteBatch(n) =>
            LET batch == ExecutionsAfter(n)
                r == api_returns[n]
            IN TranscriptAfter(n) =
                 TranscriptAt(n)
                   \o <<[role |-> "assistant", content |-> r.content],
                        [role |-> "user",
                         content |-> [k \in 1..Len(batch) |->
                                        [type |-> "tool_result",
                                         tool_use_id |-> batch[k].id,
                                         content |-> batch[k].out]]]>>

\* a round of three tools in the sequential path, all successful
C24_Witness ==
    /\ Sequential
    /\ Len(api_calls) = 1
    /\ CompleteBatch(1)
    /\ Len(tool_calls) = 3
    /\ Len(messages) = 3
    /\ Len(messages[3].content) = 3
    /\ pc = "loop"

\* --------------------------------------------------------------------- C25
\* transcript a is the beginning of transcript b
IsPrefix(a, b) == Len(a) <= Len(b) /\ SubSeq(b, 1, Len(a)) = a

\* C25: within one query the transcript only grows by appending: no step
\* changes or removes an entry, the transcript sent with each model call has
\* the transcript sent with the previous model call as a prefix, and the
\* first entry is always the user query.
C25_TranscriptGrows ==
    [][/\ IsPrefix(messages, messages')
       /\ messages'[1] = [role |-> "user", content |-> Query]
       /\ \A i \in 1..Len(api_calls') :
             /\ api_calls'[i].params.messages[1] = [role |-> "user", content |-> Query]
             /\ IsPrefix(api_calls'[i].params.messages, messages')
             /\ i > 1 => IsPrefix(api_calls'[i - 1].params.messages,
                                  api_calls'[i].params.messages)]_vars

\* three model calls, each with a longer transcript than the one before
C25_Witness ==
    /\ Sequential /\ Done
    /\ Len(api_calls) = 3
    /\ Len(TranscriptAt(1)) = 1
    /\ Len(TranscriptAt(2)) = 3
    /\ Len(TranscriptAt(3)) = 5
    /\ IsPrefix(TranscriptAt(2), TranscriptAt(3))

\* --------------------------------------------------------------------- C26
\* the user turn holding the results of the executions es, none when es is empty
ResultsTurn(es) ==
    IF es = <<>> THEN <<>>
    ELSE <<[role |-> "user",
            content |-> [k \in 1..Len(es) |->
                            [type |-> "tool_result", tool_use_id |-> es[k].id,
                             content |-> es[k].out]]]>>

\* C26: when the j-th of the n tool requests of a round fails (sequential
\* path), the round state is marked errored, requests j+1..n are not
\* executed, and the transcript receives the assistant turn followed by a
\* single user turn holding exactly the j-1 results collected before the
\* failure when j > 1, and no user turn at all when j = 1; no result entry
\* is appended for the failed request.
C26_PartialBatch ==
    Sequential =>
        \A m \in 1..Len(tool_calls) :
            ~tool_calls[m].ok =>
                LET n == tool_calls[m].call
                    batch == ExecutionsAfter(n)
                    j == Len(batch)
                    requested == ToolUseIdsFrom(api_returns[n].content, 1)
                    expected == TranscriptAt(n)
                                  \o <<assistant_turn(api_returns[n])>>
                                  \o ResultsTurn(SubSeq(batch, 1, j - 1))
                IN /\ has_errors
                   /\ m = Len(tool_calls)
                   /\ batch[j] = tool_calls[m]
                   /\ j <= Len(requested)
                   /\ [k \in 1..j |-> batch[k].id] = SubSeq(requested, 1, j)
                   /\ \A k \in 1..(j - 1) : batch[k].ok
                   /\ messages = expected
                   /\ TranscriptAfter(n) = expected
                   /\ Len(expected) = Len(TranscriptAt(n)) + (IF j > 1 THEN 2 ELSE 1)
                   /\ \A t \in 1..Len(messages) :
                         messages[t].role = "user" /\ t > 1 =>
                             \A k \in 1..Len(messages[t].content) :
                                 messages[t].content[k].tool_use_id # tool_calls[m].id

\* the second of three requests failed and the final call has been answered
C26_Witness ==
    /\ Sequential /\ Done
    /\ Len(tool_calls) = 2
    /\ tool_calls[1].ok /\ ~tool_calls[2].ok
    /\ Len(ToolUseIdsFrom(api_returns[1].content, 1)) = 3
    /\ Len(api_calls) = 2
    /\ Len(messages) = 3
    /\ Len(messages[3].content) = 1

\* --------------------------------------------------------------------- C27
\* C27: the error flag of the round state is set only by a tool-execution
\* failure (or a missing model response), and once set it is never cleared;
\* exhausting the round budget while the last response still requests tools
\* never sets it, so the forced final call after budget exhaustion is made
\* with no error recorded.
C27_FinalCallUnflagged ==
    [][Sequential =>
         /\ has_errors => has_errors'
         /\ (~has_errors /\ has_errors') =>
               \/ /\ Len(tool_calls') = Len(tool_calls) + 1
                  /\ ~tool_calls'[Len(tool_calls')].ok
               \/ last_response' = None
         /\ \A i \in 1..Len(api_calls') :
               api_calls'[i].site = "final" /\ api_calls'[i].round > max_rounds
                   => ~api_calls'[i].has_errors]_vars

\* C27 (amended): the error flag is set only by the step in which a tool
\* execution fails, and once set it is never cleared; exhausting the round
\* budget never sets it, so the forced final call after budget exhaustion is
\* made with no error recorded unless a tool execution failed in the round
\* that used up the budget, and with the error recorded when one did.
C27_ErrorFlag ==
    [][Sequential =>
         /\ has_errors => has_errors'
         /\ (~has_errors /\ has_errors') =>
               /\ Len(tool_calls') = Len(tool_calls) + 1
               /\ ~tool_calls'[Len(tool_calls')].ok
         /\ has_errors' = ToolFailed'
         /\ \A i \in 1..Len(api_calls') :
               api_calls'[i].site = "final" /\ api_calls'[i].round > max_rounds
                   => api_calls'[i].has_errors
                        = (\E m \in 1..Len(tool_calls') :
                              tool_calls'[m].call < i /\ ~tool_calls'[m].ok)]_vars

\* the budget of two rounds is used up by two successful tool rounds and the
\* final call is made with the flag unset
C27_Witness ==
    /\ Sequential /\ Done
    /\ max_rounds = MaxRounds
    /\ Len(api_calls) = MaxRounds + 1
    /\ api_calls[Len(api_calls)].site = "final"
    /\ api_calls[Len(api_calls)].round = max_rounds + 1
    /\ ~api_calls[Len(api_calls)].has_errors
    /\ Len(tool_calls) >= MaxRounds
    /\ ~has_errors

\* --------------------------------------------------------------------- C28
\* C28: the forced final call is the last action of a query and happens at
\* most once: after it is issued no further model call is made and the tool
\* executor is never invoked, even when the final response itself contains
\* tool-use requests; run then returns the first text block of that response
\* or a diagnostic placeholder.
C28_FinalCallIsLast ==
    Sequential =>
        \A i \in 1..Len(api_calls) :
            api_calls[i].site = "final" =>
                /\ i = Len(api_calls)
                /\ \A k \in 1..Len(api_calls) : api_calls[k].site = "final" => k = i
                /\ \A m \in 1..Len(tool_calls) : tool_calls[m].call < i
                /\ Done
                /\ outcome = "returned"
                /\ result = FinalOutcome(i)
                /\ \/ IsResponse(api_returns[i]) /\ HasText(api_returns[i])
                   \/ HasDiagnosticPrefix(result)

\* the final response holds a text block and a tool-use request: the text is
\* returned and the request is not executed
C28_Witness ==
    /\ Sequential /\ Done
    /\ Len(api_calls) >= 2
    /\ api_calls[Len(api_calls)].site = "final"
    /\ IsResponse(api_returns[Len(api_calls)])
    /\ ToolUsePositions(api_returns[Len(api_calls)]) # {}
    /\ HasText(api_returns[Len(api_calls)])
    /\ result = FirstText(api_returns[Len(api_calls)])
    /\ \A m \in 1..Len(tool_calls) : tool_calls[m].call < Len(api_calls)

\* --------------------------------------------------------------------- C29
\* the rounds in which the tool executor was invoked
ToolRounds == {tool_calls[m].round : m \in 1..Len(tool_calls)}

\* C29: the tool executor is invoked in at most max_rounds distinct rounds of
\* a query, every batch of tool executions directly follows the in-loop model
\* call whose response requested them (at most one tool batch per model
\* call), and each tool-use request is executed at most once.
C29_ToolBatches ==
    Sequential =>
        /\ max_rounds >= 0 => Cardinality(ToolRounds) <= max_rounds
        /\ ToolRounds \subseteq FirstRound..max_rounds
        /\ \A m \in 1..Len(tool_calls) :
              LET n == tool_calls[m].call
              IN /\ n \in 1..Len(api_calls)
                 /\ api_calls[n].site = "round"
                 /\ api_calls[n].round = tool_calls[m].round
                 /\ IsResponse(api_returns[n])
                 /\ \E p \in ToolUsePositions(api_returns[n]) :
                       api_returns[n].content[p].id = tool_calls[m].id
        /\ \A n \in 1..Len(api_calls) :
              LET batch == ExecutionsAfter(n)
              IN batch # <<>> =>
                    /\ Len(batch) <= Len(ToolUseIdsFrom(api_returns[n].content, 1))
                    /\ [k \in 1..Len(batch) |-> batch[k].id]
                         = SubSeq(ToolUseIdsFrom(api_returns[n].content, 1),
                                  1, Len(batch))
        /\ \A m1, m2 \in 1..Len(tool_calls) :
              m1 < m2 =>
                  /\ tool_calls[m1].call <= tool_calls[m2].call
                  /\ tool_calls[m1].round <= tool_calls[m2].round
                  /\ tool_calls[m1].id # tool_calls[m2].id
                  /\ (tool_calls[m1].call = tool_calls[m2].call)
                        = (tool_calls[m1].round = tool_calls[m2].round)

\* the executor ran in each of the max_rounds rounds, several requests in one
C29_Witness ==
    /\ Sequential /\ Done
    /\ max_rounds = MaxRounds
    /\ Cardinality(ToolRounds) = max_rounds
    /\ Len(tool_calls) > max_rounds
    /\ Len(api_calls) = max_rounds + 1

\* --------------------------------------------------------------------- C30
\* C30: every model call issued inside the round loop is made in a state
\* where current_round <= max_rounds and no error has been recorded; no
\* in-loop (tools-enabled) model call is ever made at current_round =
\* max_rounds + 1 or after the error flag is set.
C30_InLoopCallsWithinBudget ==
    Sequential =>
        \A i \in 1..Len(api_calls) :
            (api_calls[i].site = "round" \/ ToolsEnabled(api_calls[i])) =>
                /\ api_calls[i].site = "round"
                /\ api_calls[i].round \in FirstRound..max_rounds
                /\ ~api_calls[i].has_errors
                /\ \A m \in 1..Len(tool_calls) :
                      ~tool_calls[m].ok => tool_calls[m].call >= i

\* an in-loop call made in the last round of the budget, after a round of
\* tool use, and a final call at max_rounds + 1 after it
C30_Witness ==
    /\ Sequential /\ Done
    /\ max_rounds = MaxRounds
    /\ Len(api_calls) = MaxRounds + 1
    /\ api_calls[MaxRounds].site = "round"
    /\ api_calls[MaxRounds].round = max_rounds
    /\ ToolsEnabled(api_calls[MaxRounds])
    /\ api_calls[MaxRounds + 1].site = "final"
    /\ ToolFailed

\* --------------------------------------------------------------------- C31
\* C31: the system instructions are fixed for the whole query: every model
\* call of one run (each in-loop call and the forced final call) carries the
\* same system content, which is the base prompt alone when no (or an empty)
\* conversation history is given and the base prompt followed by the
\* conversation history otherwise; the first model call's transcript is
\* exactly the single user query.
C31_SystemFixed ==
    Sequential =>
        /\ \A i, k \in 1..Len(api_calls) :
              api_calls[i].params.system = api_calls[k].params.system
        /\ \A i \in 1..Len(api_calls) :
              /\ conversation_history = ""
                    => api_calls[i].params.system = SYSTEM_PROMPT
              /\ conversation_history # ""
                    => /\ api_calls[i].params.system
                            = SYSTEM_PROMPT \o "\n\nPrevious conversation:\n"
                                \o conversation_history
                       /\ api_calls[i].params.system # SYSTEM_PROMPT
        /\ Len(api_calls) >= 1
              => TranscriptAt(1) = <<[role |-> "user", content |-> Query]>>

\* a run with a conversation history that made two in-loop calls and the
\* final call
C31_Witness ==
    /\ Sequential /\ Done
    /\ conversation_history # ""
    /\ Len(api_calls) = 3
    /\ api_calls[1].site = "round"
    /\ api_calls[3].site = "final"
    /\ api_calls[3].params.system = api_calls[1].params.system
    /\ api_calls[3].params.system # SYSTEM_PROMPT

\* --------------------------------------------------------------------- C32
\* the executor invocations that returned, in order
SuccessfulExecutions == SelectSeq(tool_calls, LAMBDA e : e.ok)

\* the tool execution log holds one record per successful execution, with
\* the round current when the tool ran, its name, its input and its result
LogMatchesExecutions ==
    /\ Len(tool_execution_history) = Len(SuccessfulExecutions)
    /\ \A k \in 1..Len(tool_execution_history) :
          /\ tool_execution_history[k]
               = [round |-> SuccessfulExecutions[k].round,
                  tool_name |-> SuccessfulExecutions[k].name,
                  input |-> SuccessfulExecutions[k].input,
                  result |-> SuccessfulExecutions[k].out]
          /\ tool_execution_history[k].round \in FirstRound..max_rounds
          /\ k > 1 => tool_execution_history[k - 1].round
                        <= tool_execution_history[k].round

\* C32: the tool execution log holds exactly one record per successful tool
\* execution and none for a failed one: each record carries the round number
\* that was current when the tool ran, the tool name, its input and its
\* result; records are only appended, and their round numbers are
\* non-decreasing and lie in 1..max_rounds.
C32_ExecutionLog ==
    [][Sequential =>
         /\ IsPrefix(tool_execution_history, tool_execution_history')
         /\ Len(tool_execution_history') <= Len(tool_execution_history) + 1
         /\ (tool_execution_history' # tool_execution_history)
               = (/\ Len(tool_calls') = Len(tool_calls) + 1
                  /\ tool_calls'[Len(tool_calls')].ok)
         /\ LogMatchesExecutions']_vars

\* two records of different rounds and a failed execution that left none
C32_Witness ==
    /\ Sequential /\ Done
    /\ Len(tool_calls) = 3
    /\ ~tool_calls[3].ok
    /\ Len(tool_execution_history) = 2
    /\ tool_execution_history[1].round = 1
    /\ tool_execution_history[2].round = 2

\* --------------------------------------------------------------------- C33
\* roles alternate from the user query on, the last entry is a user turn, and
\* every tool-use request of an assistant turn has a tool-result entry with
\* its identifier in the user turn that follows
WellFormed(t) ==
    /\ Len(t) >= 1
    /\ t[1] = [role |-> "user", content |-> Query]
    /\ \A k \in 1..Len(t) : t[k].role = (IF k % 2 = 1 THEN "user" ELSE "assistant")
    /\ t[Len(t)].role = "user"
    /\ \A k \in 1..Len(t) :
          t[k].role = "assistant" =>
              \A p \in ToolUseIndices(t[k].content) :
                  /\ k + 1 <= Len(t)
                  /\ t[k + 1].role = "user"
                  /\ \E q \in 1..Len(t[k + 1].content) :
                        /\ t[k + 1].content[q].type = "tool_result"
                        /\ t[k + 1].content[q].tool_use_id = t[k].content[p].id

\* C33: at every model call of the sequential path (in-loop or forced final)
\* the transcript is well-formed: roles alternate starting with the user
\* query, the last entry is a user-role turn, and every tool-use request in
\* an assistant turn is answered by a tool-result entry with the same
\* identifier in the immediately following user turn; this holds also after
\* a tool execution failure and when no tool executor was supplied.
C33_TranscriptWellFormed ==
    Sequential => \A i \in 1..Len(api_calls) : WellFormed(TranscriptAt(i))

\* --------------------------------------------------------------------- C34
\* the loop iterations completed so far whose response held a tool-use request
IterationsWithToolUse ==
    {i \in 1..Len(api_calls) :
        /\ api_calls[i].site = "round"
        /\ IsResponse(api_returns[i])
        /\ ToolUsePositions(api_returns[i]) # {}
        /\ ~(i = Len(api_calls) /\ pc = "tools")}

\* C34: in every reachable round state of a query with max_rounds >= 1,
\* 1 <= current_round <= max_rounds + 1; the round counter never decreases,
\* it increases by exactly 1 per loop iteration whose response contains a
\* tool-use request, and it is unchanged by an iteration that returns text
\* or ends on an error.
C34_RoundCounter ==
    [][(Sequential /\ max_rounds >= 1) =>
         /\ current_round' \in FirstRound..(max_rounds + 1)
         /\ current_round' \in {current_round, current_round + 1}
         /\ current_round' = FirstRound + Cardinality(IterationsWithToolUse')
         /\ (current_round' = current_round + 1)
               = (IterationsWithToolUse' # IterationsWithToolUse)
         /\ (pc' = "done" /\ IterationsWithToolUse' = IterationsWithToolUse)
               => current_round' = current_round]_vars

\* two iterations with tool use took the counter from 1 to max_rounds + 1
C34_Witness ==
    /\ Sequential /\ Done
    /\ max_rounds = MaxRounds
    /\ current_round = MaxRounds + 1
    /\ Cardinality(IterationsWithToolUse) = MaxRounds
    /\ api_calls[1].round = FirstRound
    /\ api_calls[Len(api_calls)].site = "final"

\* --------------------------------------------------------------------- C35
\* C35: when the sequential entry point is called with max_rounds <= 0, the
\* loop body never executes: no model call and no tool execution is issued,
\* no forced final call is made, and the call returns the diagnostic
\* placeholder "Error: No response received".
C35_NoRounds ==
    (Sequential /\ max_rounds <= 0) =>
        /\ api_calls = <<>>
        /\ tool_calls = <<>>
        /\ current_round = FirstRound
        /\ ~has_errors
        /\ messages = <<[role |-> "user", content |-> Query]>>
        /\ pc \in {"loop", "done"}
        /\ pc = "loop" => ~FinalCallNeeded
        /\ Done => /\ outcome = "returned"
                   /\ result = "Error: No response received"

\* a call with a negative budget has returned the placeholder
C35_Witness ==
    /\ Sequential /\ Done
    /\ max_rounds < 0
    /\ api_calls = <<>>
    /\ result = "Error: No response received"

\* --------------------------------------------------------------------- C36
\* the first response of the single path asks for tool use
FirstRequestsToolUse ==
    /\ Len(api_returns) >= 1
    /\ IsResponse(api_returns[1])
    /\ \/ api_returns[1].stop_reason = "tool_use"
       \/ ToolUsePositions(api_returns[1]) # {}

\* C36: in the single-call path, when the first response requests tool use
\* but no tool executor was supplied, exactly one model call is made, no tool
\* is executed, no follow-up call is issued, and generate_response returns
\* the text of the first content block if it has one and the placeholder
\* "Error: No valid response content received from AI." otherwise.
C36_NoExecutor ==
    (Single /\ ~tool_manager /\ FirstRequestsToolUse) =>
        /\ Len(api_calls) = 1
        /\ api_calls[1].site = "first"
        /\ tool_calls = <<>>
        /\ messages = <<[role |-> "user", content |-> Query]>>
        /\ Done
        /\ outcome = "returned"
        /\ LET content == api_returns[1].content
           IN result = IF content # <<>> /\ "text" \in DOMAIN content[1]
                       THEN content[1].text
                       ELSE "Error: No valid response content received from AI."

\* stop reason tool_use, a lone tool-use block, no executor: the placeholder
C36_Witness ==
    /\ Single /\ ~tool_manager /\ Done
    /\ FirstRequestsToolUse
    /\ api_returns[1].stop_reason = "tool_use"
    /\ ToolUsePositions(api_returns[1]) = {1}
    /\ result = "Error: No valid response content received from AI."

\* --------------------------------------------------------------------- C37
\* every tool-result turn of transcript t holds at least one entry, and each
\* entry is the result of an execution that returned
NoEmptyBatch(t) ==
    \A k \in 2..Len(t) :
        t[k].role = "user" =>
            /\ t[k].content # <<>>
            /\ \A q \in 1..Len(t[k].content) :
                  \E m \in 1..Len(tool_calls) :
                      /\ tool_calls[m].ok
                      /\ tool_calls[m].id = t[k].content[q].tool_use_id
                      /\ tool_calls[m].out = t[k].content[q].content

\* the single path handed _handle_tool_execution a response without any
\* tool-use block
HandlesNoToolUse ==
    /\ Single /\ tool_manager
    /\ Len(api_returns) >= 1
    /\ IsResponse(api_returns[1])
    /\ api_returns[1].stop_reason = "tool_use"
    /\ NextToolUse(api_returns[1].content, 1) > Len(api_returns[1].content)

\* C37: an empty tool-result batch is never appended to the transcript: in
\* both paths the user-role tool-result turn is added only when at least one
\* tool result was collected, and in the single-call path the follow-up
\* model call is still issued (with transcript [user query, assistant turn])
\* when the response handed to _handle_tool_execution contains no tool-use
\* block.
C37_NoEmptyBatch ==
    /\ NoEmptyBatch(messages)
    /\ \A i \in 1..Len(api_calls) : NoEmptyBatch(TranscriptAt(i))
    /\ HandlesNoToolUse =>
          /\ tool_calls = <<>>
          /\ messages = <<[role |-> "user", content |-> Query],
                          assistant_turn(api_returns[1])>>
          /\ Len(api_calls) = 1 => pc = "followup"
          /\ Len(api_calls) >= 2 =>
                /\ Len(api_calls) = 2
                /\ api_calls[2].site = "followup"
                /\ TranscriptAt(2) = messages
                /\ Done

\* the follow-up call was issued after a tool_use response with a lone text
\* block
C37_Witness ==
    /\ HandlesNoToolUse
    /\ api_returns[1].content # <<>>
    /\ Len(api_calls) = 2
    /\ api_calls[2].site = "followup"
    /\ Len(TranscriptAt(2)) = 2
    /\ Done

====
